---------------------------- MODULE Spec2Model ----------------------------
(***************************************************************************)
(* A.P.E.L. Scan firmware (ATmega328P), src/APEL_Scan/main.c.              *)
(*                                                                         *)
(* The model follows the control loop of main(): the three push buttons    *)
(* are polled (if / else-if chain, lines 85-115), then the switch on       *)
(* `state` samples the ADC (lines 117-131).  read_adc blocks in a busy     *)
(* wait until the converter clears ADSC, so one loop iteration is split    *)
(* at that wait:  poll -> switch -> wait -> poll.                          *)
(*                                                                         *)
(* Voltages.  The C code computes in floating point; here a voltage is     *)
(* the exact rational value of the C expression, truncated to an integer   *)
(* number of micro-volts.                                                  *)
(***************************************************************************)
EXTENDS Integers, Sequences, FiniteSets

(***************************************************************************)
(* Register bit positions of the ATmega328P used by the source.            *)
(***************************************************************************)
REFS1 == 7
REFS0 == 6
ADEN  == 7
ADSC  == 6
ADPS2 == 2
ADPS1 == 1
ADPS0 == 0

\* push button pins, lines 45-47
start    == 0
stop     == 1
readBias == 2

\* ADC channels passed to read_adc, lines 120 and 125
PeakChannel == 7
BiasChannel == 1

\* full-scale code of the 10-bit converter, lines 103 and 127
FullScale == 1023

(***************************************************************************)
(* Inputs.  The converter can return any code in 0..FullScale; the model   *)
(* draws the codes from these sets.  The pin levels read from PIND are     *)
(* drawn from all eight combinations of the three buttons.                 *)
(***************************************************************************)
PeakSamples == {0, 100, 200, 300, 450}
BiasSamples == {0, 300, FullScale}
Samples(channel) == IF channel = PeakChannel THEN PeakSamples ELSE BiasSamples

\* longest run of consecutive loop iterations won by the same button
MaxHold == 2

(***************************************************************************)
(* 8-bit register arithmetic.                                              *)
(***************************************************************************)
Pow2(i) == 2 ^ i
Bit(x, i) == (x \div Pow2(i)) % 2
Shl(b, i) == (b * Pow2(i)) % 256

RECURSIVE BitAndFrom(_, _, _)
BitAndFrom(x, y, i) ==
    IF i > 7 THEN 0
    ELSE (IF Bit(x, i) = 1 /\ Bit(y, i) = 1 THEN Pow2(i) ELSE 0) + BitAndFrom(x, y, i + 1)
BitAnd(x, y) == BitAndFrom(x, y, 0)

RECURSIVE BitOrFrom(_, _, _)
BitOrFrom(x, y, i) ==
    IF i > 7 THEN 0
    ELSE (IF Bit(x, i) = 1 \/ Bit(y, i) = 1 THEN Pow2(i) ELSE 0) + BitOrFrom(x, y, i + 1)
BitOr(x, y) == BitOrFrom(x, y, 0)

\* the reference selection field REFS1:REFS0 of an ADMUX value
RefBits(mux) == <<Bit(mux, REFS1), Bit(mux, REFS0)>>
\* the channel field MUX3:0 of an ADMUX value
MuxChannel(mux) == mux % 16

(***************************************************************************)
(* Exact decimal arithmetic:  FixDiv(n, d, k) = floor(n * 10^k / d),       *)
(* computed by long division so that no intermediate exceeds 32 bits.      *)
(***************************************************************************)
RECURSIVE FixDiv(_, _, _)
FixDiv(n, d, k) ==
    IF k = 0 THEN n \div d
    ELSE (n \div d) * (10 ^ k) + FixDiv((n % d) * 10, d, k - 1)

\* line 103: peakVoltage * 1.1 * ((495.2+101.65)/101.65) / 1023.0, in micro-volts
\*   1.1 = 11/10,  (495.2+101.65)/101.65 = 59685/10165
ReconstructPeak(s) == FixDiv(s * 11 * (49520 + 10165), 10 * 10165 * FullScale, 6)

\* line 127: Vread * 5.0 * ((498.1+101.8)/101.8) / 1023.0, in micro-volts
\*   (498.1+101.8)/101.8 = 5999/1018
ReconstructBias(s) == FixDiv(s * 5 * (4981 + 1018), 1018 * FullScale, 6)

SetMax(S) == IF S = {} THEN 0 ELSE CHOOSE m \in S : \A x \in S : x <= m


(***************************************************************************)
(* State.                                                                  *)
(*   state, peakVoltage, Vread, peak, bias   locals of main, lines 63-67   *)
(*   pc            position of the loop: "poll" (85), "switch" (117),      *)
(*                 "wait" (192, the busy wait of read_adc)                 *)
(*   ADMUX, ADCSRA, ADC   device registers                                 *)
(*   pins          levels of PD0..PD2 read from PIND by the poll of the    *)
(*                 current iteration; 0 once the switch has been entered   *)
(*   printed       voltage handed to print_volt since the display was      *)
(*                 last cleared by lcd_init (NoVolt when none)             *)
(*   lcd           the 16x2 character display: address counter and the     *)
(*                 visible cells of the two lines                          *)
(* History of the current run, kept for stating properties:                *)
(*   state0, peak0, admux0   state, peakVoltage, ADMUX when the current    *)
(*                 iteration polled the buttons                            *)
(*   hold          button that won the last poll and for how many          *)
(*                 consecutive iterations it has won                       *)
(*   taken         peak-channel codes converted since the last iteration   *)
(*                 in which Start was active                               *)
(*   conv          conversions completed in the current iteration          *)
(*   lastSel       reference selector that ran last                        *)
(*   shows         executions of lines 103-105 (peak reconstructed and     *)
(*                 displayed) in the current iteration                     *)
(*   pressed       some button has been found active since power-up        *)
(***************************************************************************)
VARIABLES state, peakVoltage, Vread, peak, bias, pc,
          ADMUX, ADCSRA, ADC, pins, printed, lcd,
          state0, peak0, admux0, hold, taken, conv, lastSel, shows, pressed

prog  == <<state, peakVoltage, Vread, peak, bias, pc>>
regs  == <<ADMUX, ADCSRA, ADC>>
hist  == <<state0, peak0, admux0, hold, taken, conv, lastSel, shows, pressed>>
vars  == <<prog, regs, pins, printed, lcd, hist>>

NoVolt == -1

(***************************************************************************)
(* The character display (HD44780 type, 2 lines of 16 visible cells).      *)
(* A character is a one-character string; the custom glyphs of             *)
(* store_cust_chars (codes 0..3) are written "[A]", "[P]", "[E]", "[L]".   *)
(***************************************************************************)
Columns == 16
BlankLine == [i \in 1 .. Columns |-> " "]
\* DDRAM address of the first cell of the second line
Line2Base == 64

\* lcd_cmd(cmd_out), lines 143-150: 0x01 clears the display and homes the
\* address counter, 0x80 + a sets the DDRAM address; 0x38 and 0x0C (function
\* set, display on) leave the contents alone.
LcdCmd(l, c) ==
    IF c = 1 THEN [ac |-> 0, row1 |-> BlankLine, row2 |-> BlankLine]
    ELSE IF c >= 128 THEN [l EXCEPT !.ac = c - 128]
    ELSE l

\* In LcdData and LcdStr the display argument is bound to a variable m, so
\* that it is evaluated once however often it is used (inside ENABLED an
\* operator argument is otherwise re-evaluated at every use, and a chain of
\* display writes becomes exponentially expensive).

\* lcd_data(data_out), lines 152-159: the character is stored at the
\* address counter, which then advances (0x27 -> 0x40, 0x67 -> 0x00)
LcdStore(l, ch) ==
    LET a == l.ac
        next == IF a = 39 THEN Line2Base ELSE IF a = 103 THEN 0 ELSE a + 1
    IN  IF a < Columns
        THEN [l EXCEPT !.row1[a + 1] = ch, !.ac = next]
        ELSE IF a >= Line2Base /\ a < Line2Base + Columns
        THEN [l EXCEPT !.row2[a - Line2Base + 1] = ch, !.ac = next]
        ELSE [l EXCEPT !.ac = next]
LcdData(l, ch) == CHOOSE r \in {LcdStore(m, ch) : m \in {l}} : TRUE

\* lcd_str(str), lines 161-169
RECURSIVE LcdStr(_, _)
LcdStr(l, str) ==
    IF str = <<>> THEN l
    ELSE CHOOSE r \in {LcdStr(m, Tail(str)) : m \in {LcdData(l, Head(str))}} : TRUE

\* lcd_init(), lines 135-141, on the display contents
LcdInit(l) == LcdCmd(LcdCmd(LcdCmd(LcdCmd(l, 56), 12), 1), 128)

DotScan == <<".", " ", "S", "c", "a", "n">>
\* print_APEL(), lines 273-284
PrintApel(l) ==
    LcdStr(LcdStr(LcdCmd(l, 129), <<"[A]", ".", "[P]", ".", "[E]", ".", "[L]">>), DotScan)

\* welcome_screen(), lines 218-224
WelcomeScreen(l) ==
    LcdStr(LcdCmd(PrintApel(l), 195), <<"U", "N", "L", "V", " ", " ", "2", "0", "1", "7">>)

DigitChar(d) == <<"0", "1", "2", "3", "4", "5", "6", "7", "8", "9">>[d + 1]

\* the conversion %u of sprintf
RECURSIVE UDigits(_)
UDigits(n) == IF n < 10 THEN <<DigitChar(n)>> ELSE UDigits(n \div 10) \o <<DigitChar(n % 10)>>

\* variant of FormatVolt: the fraction printed without zero padding
FormatVoltNoPad(voltage) ==
    UDigits(voltage \div 1000000) \o <<".">>
        \o UDigits((voltage % 1000000) \div 1000) \o <<" ", "V">>

\* print_volt, lines 203-213: the text built in number[], for a voltage in
\* micro-volts.  intV = (int) voltage, decV = (int) ((voltage - intV) * 1000).
FormatVolt(voltage) ==
    LET intV == voltage \div 1000000
        diffV == voltage - intV * 1000000
        decV == diffV \div 1000
    IN  IF decV < 10
        THEN UDigits(intV) \o <<".", "0", "0">> \o UDigits(decV) \o <<" ", "V">>
        ELSE IF decV < 100
        THEN UDigits(intV) \o <<".", "0">> \o UDigits(decV) \o <<" ", "V">>
        ELSE UDigits(intV) \o <<".">> \o UDigits(decV) \o <<" ", "V">>

\* print_volt(voltage), lines 196-216, on the display contents
PrintVolt(l, voltage) == LcdStr(l, FormatVolt(voltage))

\* the display after lines 72-74
InitLcd == WelcomeScreen(LcdInit([ac |-> 0, row1 |-> BlankLine, row2 |-> BlankLine]))

\* lines 63-74: locals after their initialisers, registers after reset,
\* welcome screen on the display.  `bias` has no initialiser; it is written
\* (line 127) before its only read (line 129), so its initial value is
\* never observed and is fixed to NoVolt here.
Init ==
    /\ state = 0 /\ peakVoltage = 0 /\ Vread = 0 /\ peak = 0 /\ bias = NoVolt
    /\ pc = "poll"
    /\ ADMUX = 0 /\ ADCSRA = 0 /\ ADC = 0 /\ pins = 0
    /\ printed = NoVolt /\ lcd = InitLcd
    /\ state0 = 0 /\ peak0 = 0 /\ admux0 = 0
    /\ hold = [btn |-> "none", n |-> 0]
    /\ taken = {} /\ conv = <<>> /\ lastSel = "none"
    /\ shows = 0 /\ pressed = FALSE

(***************************************************************************)
(* Reference selectors.                                                    *)
(***************************************************************************)
\* line 173: ADMUX = (0<<REFS1|1<<REFS0)
AdcInitMux == BitOr(Shl(0, REFS1), Shl(1, REFS0))
\* line 183: ADMUX = (1<<REFS1|1<<REFS1)
AdcInitBGMux == BitOr(Shl(1, REFS1), Shl(1, REFS1))
\* lines 178 and 185: ADCSRA = (0<<ADPS2)|(1<<ADPS1)|(1<<ADPS0)|(1<<ADEN)
AdcInitCsra == BitOr(BitOr(Shl(0, ADPS2), Shl(1, ADPS1)), BitOr(Shl(1, ADPS0), Shl(1, ADEN)))

\* adc_init(), lines 171-179
adc_init ==
    /\ ADMUX' = AdcInitMux
    /\ ADCSRA' = AdcInitCsra
    /\ lastSel' = "adc_init"

\* adc_initBG(), lines 181-186
adc_initBG ==
    /\ ADMUX' = AdcInitBGMux
    /\ ADCSRA' = AdcInitCsra
    /\ lastSel' = "adc_initBG"

\* lcd_init(), lines 135-141: command 0x01 clears the screen
lcd_init == printed' = NoVolt

\* print_volt(voltage), lines 196-216, after lcd_init in the same branch
print_volt(voltage) == printed' = voltage

(***************************************************************************)
(* Button tests of the if / else-if chain.                                 *)
(***************************************************************************)
\* line 85: (PIND & 0x01) == 0x01
StartPushed(p) == BitAnd(p, Shl(1, start)) = Shl(1, start)
\* line 96: (PIND & 0x02) == 0x02
StopPushed(p) == BitAnd(p, Shl(1, stop)) = Shl(1, stop)
\* line 107: (PIND & 0x04) == 0x04
ReadBiasPushed(p) == BitAnd(p, Shl(1, readBias)) = Shl(1, readBias)

\* The three button pins PD0..PD2 in every combination.  The tests of
\* lines 85, 96 and 107 read PIND a few instructions apart; the levels are
\* taken to be the same for the three reads of one iteration.
PinLevels == 0 .. 7

\* variant of Winner: the Stop test placed ahead of the Start test
WinnerStopFirst(p) ==
    IF StopPushed(p) THEN "stop"
    ELSE IF StartPushed(p) THEN "start"
    ELSE IF ReadBiasPushed(p) THEN "readBias"
    ELSE "none"

\* lines 85, 96, 107: the branch of the if / else-if chain that runs
Winner(p) ==
    IF StartPushed(p) THEN "start"
    ELSE IF StopPushed(p) THEN "stop"
    ELSE IF ReadBiasPushed(p) THEN "readBias"
    ELSE "none"

\* Reading the pins at the top of an iteration.  `w` is the branch taken.
\* A button wins at most MaxHold consecutive iterations.
Poll(p, w) ==
    /\ pc = "poll"
    /\ w # "none" /\ hold.btn = w => hold.n < MaxHold
    /\ pins' = p
    /\ state0' = state /\ peak0' = peakVoltage /\ admux0' = ADMUX
    /\ conv' = <<>>
    /\ pressed' = (pressed \/ w # "none")
    /\ hold' = IF w = "none" THEN [btn |-> "none", n |-> 0]
               ELSE IF hold.btn = w THEN [btn |-> w, n |-> hold.n + 1]
               ELSE [btn |-> w, n |-> 1]
    /\ pc' = "switch"

\* variant of PeakOnStart: the reset of line 89 left out
PeakOnStartKeep(st, pv) == pv
\* variant of PeakOnStart: the reset done only when the mode changes
PeakOnStartEdge(st, pv) == IF st = 1 THEN pv ELSE 0
\* variant of StateOnStop: Stop honoured only while acquiring
StateOnStopFromAcq(st) == IF st = 1 THEN 2 ELSE st
\* variant of ShowsOnStop: the peak displayed only on entry into Stopped
ShowsOnStopEdge(st) == IF st = 2 THEN 0 ELSE 1
\* variant of PeakOnStop: the last reading reconstructed instead of the peak
PeakOnStopVread(pv, vr) == ReconstructPeak(vr)

\* line 88
StateOnStart(st) == 1
\* line 89
PeakOnStart(st, pv) == 0
\* line 98
StateOnStop(st) == 2
\* line 103, the accumulator value that is reconstructed
PeakOnStop(pv, vr) == ReconstructPeak(pv)
\* lines 103-105 run once in the Stop branch, whatever the mode
ShowsOnStop(st) == 1
\* line 110
StateOnReadBias(st) == 3

\* lines 85-95
PollStart ==
    \E p \in PinLevels :
        /\ Winner(p) = "start"
        /\ Poll(p, "start")
        /\ adc_initBG
        /\ state' = StateOnStart(state)
        /\ peakVoltage' = PeakOnStart(state, peakVoltage)
        /\ lcd_init
        /\ lcd' = LcdStr(LcdCmd(LcdStr(PrintApel(LcdInit(lcd)), DotScan), 195),
                         <<"R", "u", "n", "n", "i", "n", "g", ".", ".", ".">>)
        /\ taken' = {} /\ shows' = 0
        /\ UNCHANGED <<Vread, peak, bias, ADC>>

\* lines 96-106
PollStop ==
    \E p \in PinLevels :
        /\ Winner(p) = "stop"
        /\ Poll(p, "stop")
        /\ state' = StateOnStop(state)
        /\ peak' = PeakOnStop(peakVoltage, Vread)
        /\ print_volt(peak')
        /\ lcd' = PrintVolt(LcdCmd(LcdStr(LcdCmd(LcdInit(lcd), 130),
                        <<"P", "e", "a", "k", " ", "V", "o", "l", "t", "a", "g", "e">>), 192),
                        peak')
        /\ shows' = ShowsOnStop(state)
        /\ UNCHANGED <<peakVoltage, Vread, bias, ADMUX, ADCSRA, ADC, taken, lastSel>>

\* lines 107-115
PollReadBias ==
    \E p \in PinLevels :
        /\ Winner(p) = "readBias"
        /\ Poll(p, "readBias")
        /\ adc_init
        /\ state' = StateOnReadBias(state)
        /\ lcd_init
        /\ lcd' = LcdCmd(LcdStr(LcdCmd(LcdInit(lcd), 131),
                        <<"S", "i", "P", "M", " ", "B", "i", "a", "s">>), 194)
        /\ shows' = 0
        /\ UNCHANGED <<peakVoltage, Vread, peak, bias, ADC, taken>>

\* no condition of the chain holds
PollNone ==
    \E p \in PinLevels :
        /\ Winner(p) = "none"
        /\ Poll(p, "none")
        /\ shows' = 0
        /\ UNCHANGED <<state, peakVoltage, Vread, peak, bias, ADMUX, ADCSRA, ADC,
                       printed, lcd, taken, lastSel>>

(***************************************************************************)
(* read_adc, lines 188-194.                                                *)
(***************************************************************************)
\* variant of ReadAdcMux: the upper nibble of ADMUX not preserved
ReadAdcMuxClobber(mux, channel) == BitAnd(channel, 15)

\* line 190: ADMUX = (ADMUX & 0xF0) | (channel & 0x0F)
ReadAdcMux(mux, channel) == BitOr(BitAnd(mux, 240), BitAnd(channel, 15))

\* lines 190-191: select the channel and start a single conversion
ReadAdcStart(channel) ==
    /\ ADMUX' = ReadAdcMux(ADMUX, channel)
    /\ ADCSRA' = BitOr(ADCSRA, Shl(1, ADSC))
    /\ pc' = "wait"

\* line 120: case 1 calls read_adc(7)
SwitchPeak ==
    /\ pc = "switch" /\ state = 1
    /\ ReadAdcStart(PeakChannel)
    /\ pins' = 0
    /\ UNCHANGED <<state, peakVoltage, Vread, peak, bias, ADC, printed, lcd, hist>>

\* line 125: case 3 calls read_adc(1)
SwitchBias ==
    /\ pc = "switch" /\ state = 3
    /\ ReadAdcStart(BiasChannel)
    /\ pins' = 0
    /\ UNCHANGED <<state, peakVoltage, Vread, peak, bias, ADC, printed, lcd, hist>>

\* variant of SwitchNone: a conversion started in the modes without a case
SwitchNoneSampling ==
    /\ pc = "switch" /\ state \notin {1, 3}
    /\ ReadAdcStart(PeakChannel)
    /\ pins' = 0
    /\ UNCHANGED <<state, peakVoltage, Vread, peak, bias, ADC, printed, lcd, hist>>

\* lines 117-131: no case for state 0 and state 2
SwitchNone ==
    /\ pc = "switch" /\ state \notin {1, 3}
    /\ pc' = "poll" /\ pins' = 0
    /\ UNCHANGED <<state, peakVoltage, Vread, peak, bias, regs, printed, lcd, hist>>

\* The converter finishes the conversion started at line 191: it latches a
\* code of the selected channel in ADC and clears ADSC, which ends the wait
\* of line 192.
AdcComplete ==
    /\ Bit(ADCSRA, ADEN) = 1 /\ Bit(ADCSRA, ADSC) = 1
    /\ \E v \in Samples(MuxChannel(ADMUX)) :
          /\ ADC' = v
          /\ conv' = Append(conv, [channel |-> MuxChannel(ADMUX), code |-> v,
                                   ref |-> RefBits(ADMUX), sel |-> lastSel])
          /\ taken' = IF MuxChannel(ADMUX) = PeakChannel THEN taken \cup {v} ELSE taken
    /\ ADCSRA' = ADCSRA - Shl(1, ADSC)
    /\ UNCHANGED <<prog, ADMUX, pins, printed, lcd, state0, peak0, admux0, hold, lastSel,
                   shows, pressed>>

\* variant of WaitOver: read_adc returning without waiting for ADSC
WaitOverAlways(csra) == TRUE

\* line 192: while( ADCSRA & (1<<ADSC) ) has ended
WaitOver(csra) == BitAnd(csra, Shl(1, ADSC)) = 0

\* variant of PeakUpdate: the comparison of line 121 left out
PeakUpdateLast(vr, pv) == vr

\* line 121: if(Vread > peakVoltage) peakVoltage = Vread
PeakUpdate(vr, pv) == IF vr > pv THEN vr ELSE pv

\* lines 192-193 and 120-122: the wait ends, read_adc returns ADC
ReturnPeak ==
    /\ pc = "wait" /\ WaitOver(ADCSRA) /\ state = 1
    /\ Vread' = ADC
    /\ peakVoltage' = PeakUpdate(Vread', peakVoltage)
    /\ pc' = "poll"
    /\ UNCHANGED <<state, peak, bias, regs, pins, printed, lcd, hist>>

\* variant of BiasOnRead: the divider ratio (498.1+101.8)/101.8 evaluated
\* in integer arithmetic
BiasOnReadIntRatio(vr, pv) == FixDiv(vr * 5 * ((498 + 101) \div 101), FullScale, 6)
\* variant of BiasOnRead: the peak-signal calibration used for the bias
BiasOnReadPeakProfile(vr, pv) == ReconstructPeak(vr)
\* variant of PeakOnBias: case 3 falling into the comparison of case 1
PeakOnBiasTrack(vr, pv) == IF vr > pv THEN vr ELSE pv

\* line 127
BiasOnRead(vr, pv) == ReconstructBias(vr)
\* case 3 leaves the accumulator alone, lines 124-130
PeakOnBias(vr, pv) == pv

\* lines 192-193 and 125-130
ReturnBias ==
    /\ pc = "wait" /\ WaitOver(ADCSRA) /\ state = 3
    /\ Vread' = ADC
    /\ bias' = BiasOnRead(Vread', peakVoltage)
    /\ peakVoltage' = PeakOnBias(Vread', peakVoltage)
    /\ print_volt(bias')
    /\ lcd' = PrintVolt(LcdCmd(lcd, 192), bias')
    /\ pc' = "poll"
    /\ UNCHANGED <<state, peak, regs, pins, hist>>

Next ==
    \/ PollStart
    \/ PollStop
    \/ PollReadBias
    \/ PollNone
    \/ SwitchPeak
    \/ SwitchBias
    \/ SwitchNone
    \/ AdcComplete
    \/ ReturnPeak
    \/ ReturnBias

Spec == Init /\ [][Next]_vars

\* the steps of the program, as opposed to the step of the converter
ProgNext ==
    \/ PollStart \/ PollStop \/ PollReadBias \/ PollNone
    \/ SwitchPeak \/ SwitchBias \/ SwitchNone
    \/ ReturnPeak \/ ReturnBias

\* For the progress properties the converter returns the extreme codes of
\* each channel only.
FairCodes == {0, SetMax(PeakSamples), FullScale}
AdcCompleteFair == AdcComplete /\ ADC' \in FairCodes

NextFair == ProgNext \/ AdcCompleteFair

\* The processor keeps executing the loop, and the converter finishes every
\* conversion that was started.
FairSpec == Init /\ [][NextFair]_vars /\ WF_vars(ProgNext) /\ WF_vars(AdcCompleteFair)

(***************************************************************************)
(* The reconstruction formulas on their own: a code is drawn from          *)
(* 0..FullScale and lines 103 and 127 are applied to it.                   *)
(***************************************************************************)
InitReconstruct ==
    /\ state = 0 /\ bias = NoVolt /\ peak = 0
    /\ Vread \in 0 .. FullScale /\ peakVoltage = Vread
    /\ pc = "reconstruct"
    /\ ADMUX = 0 /\ ADCSRA = 0 /\ ADC = 0 /\ pins = 0
    /\ printed = NoVolt /\ lcd = InitLcd
    /\ state0 = 0 /\ peak0 = 0 /\ admux0 = 0
    /\ hold = [btn |-> "none", n |-> 0]
    /\ taken = {} /\ conv = <<>> /\ lastSel = "none"
    /\ shows = 0 /\ pressed = FALSE

\* lines 103 and 127
ReconstructStep ==
    /\ pc = "reconstruct"
    /\ peak' = PeakOnStop(peakVoltage, Vread)
    /\ bias' = BiasOnRead(Vread, peakVoltage)
    /\ pc' = "done"
    /\ UNCHANGED <<state, peakVoltage, Vread, regs, pins, printed, lcd, hist>>

SpecReconstruct == InitReconstruct /\ [][ReconstructStep]_vars

(***************************************************************************)
(* print_volt on its own: the voltage is drawn from FormatInputs and       *)
(* lines 99, 104 and 105 are applied to it (display cleared, cursor at     *)
(* [2,1], print_volt).                                                     *)
(***************************************************************************)
FormatInts == {0, 1, 9, 10, 12, 29}
FormatMillis == {0, 1, 5, 9, 10, 90, 99, 100, 500, 999}
FormatMicros == {0, 900, 999}
FormatInputs ==
    {i * 1000000 + m * 1000 + u : i \in FormatInts, m \in FormatMillis, u \in FormatMicros}

InitFormat ==
    /\ state = 2 /\ peakVoltage = 0 /\ Vread = 0 /\ bias = NoVolt
    /\ peak \in FormatInputs
    /\ pc = "format"
    /\ ADMUX = 0 /\ ADCSRA = 0 /\ ADC = 0 /\ pins = 0
    /\ printed = NoVolt /\ lcd = InitLcd
    /\ state0 = 0 /\ peak0 = 0 /\ admux0 = 0
    /\ hold = [btn |-> "none", n |-> 0]
    /\ taken = {} /\ conv = <<>> /\ lastSel = "none"
    /\ shows = 0 /\ pressed = FALSE

\* lines 99, 104, 105
PrintVoltStep ==
    /\ pc = "format"
    /\ lcd' = PrintVolt(LcdCmd(LcdInit(lcd), 192), peak)
    /\ print_volt(peak)
    /\ pc' = "done"
    /\ UNCHANGED <<state, peakVoltage, Vread, peak, bias, regs, pins, hist>>

SpecFormat == InitFormat /\ [][PrintVoltStep]_vars

TypeOK ==
    /\ state \in 0 .. 3
    /\ peakVoltage \in 0 .. FullScale /\ Vread \in 0 .. FullScale
    /\ pc \in {"poll", "switch", "wait", "format", "reconstruct", "done"}
    /\ ADMUX \in 0 .. 255 /\ ADCSRA \in 0 .. 255 /\ ADC \in 0 .. FullScale
    /\ pins \in PinLevels


(***************************************************************************)
(* Properties.                                                             *)
(*                                                                         *)
(* An iteration begins with a Poll step (pc = "poll" -> "switch") and ends *)
(* when pc returns to "poll".  At pc = "switch" the branch of the button   *)
(* chain has just run; hold.btn names it.  At pc = "poll" (after Init)     *)
(* an iteration has just ended; state0 and peak0 are the mode and the      *)
(* accumulator it started with, conv the conversions it performed.         *)
(***************************************************************************)
Active(b) == Bit(pins, b) = 1
AfterBranch == pc = "switch"
IterationEnd == pc = "poll"

\* C1 -- Peak tracking: when Stop wins an iteration that follows Acquiring
\* iterations, peakVoltage is the maximum of 0 and every peak-channel code
\* converted since the last iteration in which Start was active, and the
\* voltage handed to the display is the peak-profile reconstruction of it.
C1_PeakTracking ==
    AfterBranch /\ hold.btn = "stop" /\ state0 = 1 =>
        /\ peakVoltage = SetMax(taken \cup {0})
        /\ peak = ReconstructPeak(SetMax(taken \cup {0}))
        /\ printed = peak

C1_Witness ==
    /\ AfterBranch /\ hold.btn = "stop" /\ state0 = 1
    /\ taken = {100, 200, 300, 450}
    /\ peakVoltage = 450
    /\ printed = 2841105

\* C2 -- No peak leakage: in an iteration in which Start is active, from
\* any mode, peakVoltage is 0 when the branch has run, and at the end of
\* the iteration it equals the one peak-channel code converted in it.
C2_NoPeakLeakage ==
    /\ AfterBranch /\ Active(start) => peakVoltage = 0
    /\ IterationEnd /\ hold.btn = "start" =>
          /\ Len(conv) = 1
          /\ conv[1].channel = PeakChannel
          /\ peakVoltage = conv[1].code

C2_Witness ==
    /\ IterationEnd /\ hold.btn = "start"
    /\ state0 = 2 /\ peak0 = 450
    /\ peakVoltage = 100

\* C3 -- Button priority: for every combination of the three levels and
\* every mode, only the branch of the highest-priority active button runs
\* (Start > Stop > Read-Bias); Start with Stop gives what Start alone
\* gives, Stop with Read-Bias gives what Stop alone gives.
C3_ButtonPriority ==
    AfterBranch =>
        LET outcome == <<state, peakVoltage, ADMUX, lastSel, printed>> IN
        IF Active(start)
        THEN outcome = <<1, 0, AdcInitBGMux, "adc_initBG", NoVolt>>
        ELSE IF Active(stop)
        THEN <<state, peakVoltage, ADMUX, printed>> =
                 <<2, peak0, admux0, ReconstructPeak(peak0)>>
        ELSE IF Active(readBias)
        THEN outcome = <<3, peak0, AdcInitMux, "adc_init", NoVolt>>
        ELSE <<state, peakVoltage, ADMUX>> = <<state0, peak0, admux0>>

C3_Witness ==
    /\ AfterBranch
    /\ Active(start) /\ Active(stop)
    /\ state0 = 3 /\ peak0 = 300
    /\ state = 1 /\ peakVoltage = 0 /\ printed = NoVolt

\* C4 (as claimed) -- when the mode is already Acquiring and Start is
\* active again, peakVoltage is not reset.
C4_NoResetWhileAcquiring ==
    AfterBranch /\ state0 = 1 /\ Active(start) => peakVoltage = peak0

\* C4 (amended) -- the reset to 0 is performed in every iteration in which
\* Start is active, also when the preceding mode is already Acquiring, and
\* peakVoltage is lowered in no other iteration.
C4_ResetOnEveryStart ==
    /\ AfterBranch /\ Active(start) /\ state0 = 1 => peakVoltage = 0
    /\ peakVoltage < peak0 => hold.btn = "start"

C4_Witness ==
    /\ AfterBranch /\ Active(start)
    /\ state0 = 1 /\ hold = [btn |-> "start", n |-> 2]
    /\ peak0 = 450 /\ peakVoltage = 0

\* C5 -- Level-triggered transitions: the branch that runs is decided by
\* the levels of the current iteration alone, and it runs in full in every
\* iteration the button wins, whatever the mode and however long the
\* button has been held.
C5_LevelTriggered ==
    AfterBranch =>
        /\ hold.btn = (IF Active(start) THEN "start"
                       ELSE IF Active(stop) THEN "stop"
                       ELSE IF Active(readBias) THEN "readBias" ELSE "none")
        /\ hold.btn = "start" =>
              state = 1 /\ peakVoltage = 0 /\ lastSel = "adc_initBG"
                        /\ RefBits(ADMUX) = RefBits(AdcInitBGMux)
        /\ hold.btn = "stop" =>
              state = 2 /\ peak = ReconstructPeak(peakVoltage) /\ printed = peak
        /\ hold.btn = "readBias" =>
              state = 3 /\ lastSel = "adc_init"
                        /\ RefBits(ADMUX) = RefBits(AdcInitMux)

C5_Witness ==
    /\ AfterBranch
    /\ hold = [btn |-> "start", n |-> MaxHold]
    /\ state0 = 1 /\ peak0 > 0
    /\ peakVoltage = 0

\* C6 (as claimed) -- across two consecutive iterations that both end in
\* Acquiring, peakVoltage never decreases.
C6_MonotoneWhileAcquiring ==
    IterationEnd /\ state0 = 1 /\ state = 1 => peakVoltage >= peak0

\* C6 (amended) -- across two consecutive iterations that both end in
\* Acquiring, with Start not active in the second, peakVoltage never
\* decreases, and it changes only by taking the code converted in that
\* iteration, which is then strictly greater than the old value.
C6_MonotoneWithoutStart ==
    IterationEnd /\ state0 = 1 /\ state = 1 /\ hold.btn # "start" =>
        /\ peakVoltage >= peak0
        /\ Len(conv) = 1 /\ conv[1].channel = PeakChannel
        /\ peakVoltage # peak0 =>
              peakVoltage = conv[1].code /\ conv[1].code > peak0

C6_Witness ==
    /\ IterationEnd /\ state0 = 1 /\ state = 1 /\ hold.btn = "none"
    /\ peak0 = 100 /\ conv[1].code = 300
    /\ peakVoltage = 300

\* C7 -- Bias reading leaves the peak untouched: neither the Read-Bias
\* branch nor a ReadingBias iteration changes peakVoltage, whatever code
\* the bias channel returns.
C7_BiasKeepsPeak ==
    state = 3 => peakVoltage = peak0

C7_Witness ==
    /\ IterationEnd /\ state = 3 /\ state0 = 3
    /\ Len(conv) = 1 /\ conv[1].channel = BiasChannel
    /\ conv[1].code = FullScale /\ Vread = FullScale
    /\ peakVoltage = 100

\* C8 -- Stopped from ReadingBias shows the stale peak: when Stop wins an
\* iteration whose preceding mode is ReadingBias, the mode becomes Stopped
\* and the displayed voltage is the peak-profile reconstruction of the
\* accumulator as the most recent acquisition left it (0 when there was
\* none), whatever bias codes were read in between.
C8_StaleStop ==
    AfterBranch /\ hold.btn = "stop" /\ state0 = 3 =>
        /\ state = 2
        /\ printed = ReconstructPeak(SetMax(taken \cup {0}))

C8_Witness ==
    /\ AfterBranch /\ hold.btn = "stop" /\ state0 = 3
    /\ taken = {100, 200} /\ Vread = FullScale
    /\ printed = ReconstructPeak(200) /\ printed > 0

\* C9 -- Reference is selected before sampling: every conversion on the
\* peak channel runs with the reference field written by adc_initBG and
\* every conversion on the bias channel with the one written by adc_init;
\* no mode samples before its selector has run, and the channel write of
\* read_adc leaves the reference field as the selector set it.
C9_ReferenceBeforeSampling ==
    /\ \A i \in 1 .. Len(conv) :
          /\ conv[i].channel = PeakChannel =>
                conv[i].sel = "adc_initBG" /\ conv[i].ref = RefBits(AdcInitBGMux)
          /\ conv[i].channel = BiasChannel =>
                conv[i].sel = "adc_init" /\ conv[i].ref = RefBits(AdcInitMux)
          /\ conv[i].channel \in {PeakChannel, BiasChannel}
    /\ state = 1 => lastSel = "adc_initBG"
    /\ state = 3 => lastSel = "adc_init"
    /\ lastSel = "adc_initBG" => RefBits(ADMUX) = RefBits(AdcInitBGMux)
    /\ lastSel = "adc_init" => RefBits(ADMUX) = RefBits(AdcInitMux)

C9_Witness ==
    /\ IterationEnd /\ state = 1 /\ state0 = 3
    /\ Len(conv) = 1 /\ conv[1].channel = PeakChannel
    /\ conv[1].sel = "adc_initBG"
    /\ MuxChannel(admux0) = BiasChannel /\ MuxChannel(ADMUX) = PeakChannel

\* C10 -- Live bias display: every iteration that ends in ReadingBias
\* performs exactly one conversion, on the bias channel, and hands the
\* bias-profile reconstruction of that code to the display.
C10_LiveBias ==
    IterationEnd /\ state = 3 =>
        /\ Len(conv) = 1
        /\ conv[1].channel = BiasChannel
        /\ bias = ReconstructBias(conv[1].code)
        /\ printed = bias

C10_Witness ==
    /\ IterationEnd /\ state = 3 /\ state0 = 3 /\ hold.btn = "none"
    /\ conv[1].code = 300
    /\ printed = 8640655

\* C11 (as claimed) -- the reconstruction and display of the peak voltage
\* is not repeated in an iteration that finds the mode already Stopped.
C11_OncePerStop ==
    AfterBranch /\ state0 = 2 => shows = 0

\* C11 (amended) -- the reconstruction and display of the peak voltage is
\* executed exactly once in every iteration in which Stop wins priority,
\* also when the mode is already Stopped, and in no other iteration.
C11_OncePerStopIteration ==
    /\ shows \in {0, 1}
    /\ shows = 1 <=> hold.btn = "stop"
    /\ shows = 1 => state = 2 /\ printed = ReconstructPeak(peakVoltage)

C11_Witness ==
    /\ AfterBranch /\ state0 = 2
    /\ hold = [btn |-> "stop", n |-> 2]
    /\ shows = 1 /\ peakVoltage = 300

\* C12 (as claimed) -- the mode changes only along Idle->Acquiring,
\* Acquiring->Stopped, Stopped->Acquiring, Stopped->ReadingBias,
\* ReadingBias->Acquiring and ReadingBias->Stopped.
C12_OnlyListedTransitions ==
    state # state0 =>
        <<state0, state>> \in {<<0, 1>>, <<1, 2>>, <<2, 1>>, <<2, 3>>, <<3, 1>>, <<3, 2>>}

\* C12 (amended) -- the mode after the button chain is decided by the
\* winning button alone: Acquiring for Start, Stopped for Stop, ReadingBias
\* for Read-Bias, from every mode; so next to the listed transitions the
\* mode also changes along Idle->Stopped, Idle->ReadingBias and
\* Acquiring->ReadingBias, and it is unchanged when no button is active.
C12_ModeFollowsButton ==
    /\ state = (IF hold.btn = "start" THEN 1
                ELSE IF hold.btn = "stop" THEN 2
                ELSE IF hold.btn = "readBias" THEN 3
                ELSE state0)
    /\ state # state0 =>
          <<state0, hold.btn, state>> \in
              {<<0, "start", 1>>, <<2, "start", 1>>, <<3, "start", 1>>,
               <<0, "stop", 2>>, <<1, "stop", 2>>, <<3, "stop", 2>>,
               <<0, "readBias", 3>>, <<1, "readBias", 3>>, <<2, "readBias", 3>>}

C12_Witness ==
    /\ AfterBranch /\ Active(readBias)
    /\ state0 = 1 /\ state = 3
    /\ peak0 = 200

\* C13 -- No spontaneous transitions: the mode is Idle until a button has
\* been active, and an iteration in which no button is active leaves the
\* mode, the reference selection and, outside Acquiring, peakVoltage as
\* they were, whatever code is converted.
C13_NoSpontaneousTransition ==
    /\ ~pressed => state = 0
    /\ hold.btn = "none" =>
          /\ state = state0
          /\ RefBits(ADMUX) = RefBits(admux0)
          /\ state # 1 => peakVoltage = peak0

C13_Witness ==
    /\ IterationEnd /\ hold.btn = "none" /\ pressed
    /\ state0 = 3 /\ state = 3
    /\ Len(conv) = 1 /\ conv[1].code = FullScale
    /\ peakVoltage = 100

\* C16 -- Precision reference register value: after adc_initBG, and at
\* every peak-channel conversion, REFS1 and REFS0 are both set (internal
\* 1.1 V bandgap); after adc_init REFS1 is clear and REFS0 set.
C16_BandgapSelected ==
    /\ lastSel = "adc_initBG" => RefBits(ADMUX) = <<1, 1>>
    /\ lastSel = "adc_init" => RefBits(ADMUX) = <<0, 1>>
    /\ \A i \in 1 .. Len(conv) :
          conv[i].channel = PeakChannel => conv[i].ref = <<1, 1>>

\* C17 -- Stopped is quiescent: while the mode is Stopped no conversion is
\* started or completed, peakVoltage keeps the value the iteration began
\* with, and the voltage on the display is the reconstruction of that
\* same accumulator from entry until the mode is left.
C17_StoppedQuiescent ==
    state = 2 =>
        /\ conv = <<>>
        /\ Bit(ADCSRA, ADSC) = 0
        /\ peakVoltage = peak0
        /\ printed = ReconstructPeak(peakVoltage)

C17_Witness ==
    /\ IterationEnd /\ state0 = 2 /\ state = 2 /\ hold.btn = "none"
    /\ peakVoltage = 450 /\ printed = 2841105
    /\ ADC = 450

\* C20 -- Range and dominance of the accumulator: peakVoltage is within
\* 0..FullScale, it is 0 or one of the peak-channel codes converted since
\* the last Start iteration, at the end of an iteration that ends in
\* Acquiring it is at least the code converted in that iteration, and the
\* mode is never Idle once a button has been active.
C20_RangeAndDominance ==
    /\ peakVoltage \in 0 .. FullScale
    /\ peakVoltage = 0 \/ peakVoltage \in taken
    /\ IterationEnd /\ state = 1 =>
          /\ Len(conv) = 1 /\ conv[1].channel = PeakChannel
          /\ peakVoltage >= conv[1].code
    /\ pressed => state # 0

C20_Witness ==
    /\ IterationEnd /\ state = 1 /\ pressed
    /\ conv[1].code = 100 /\ peakVoltage = 450
    /\ taken = {100, 450}

\* a text as it appears on a cleared line, from column 1
OnLine(text) == [i \in 1 .. Columns |-> IF i <= Len(text) THEN text[i] ELSE " "]

\* C14 -- Voltage formatting: for a voltage with integer part i and
\* fraction f, print_volt writes the decimal digits of i, a '.', the three
\* digits of floor(f * 1000) padded with zeros on the left, a space and 'V'.
C14_VoltageFormat ==
    pc = "done" =>
        LET i == peak \div 1000000
            m == (peak % 1000000) \div 1000
            intDigits == IF i < 10 THEN <<DigitChar(i)>>
                         ELSE <<DigitChar(i \div 10), DigitChar(i % 10)>>
            fracDigits == <<DigitChar(m \div 100), DigitChar((m \div 10) % 10),
                            DigitChar(m % 10)>>
        IN  lcd.row2 = OnLine(intDigits \o <<".">> \o fracDigits \o <<" ", "V">>)

C14_Witness ==
    /\ pc = "done" /\ peak = 12009999
    /\ lcd.row2 = OnLine(<<"1", "2", ".", "0", "0", "9", " ", "V">>)

\* C18 -- Bias refresh leaves no stale characters: after every ReadingBias
\* iteration the second line holds the text of the latest bias code from
\* column 1 and blanks elsewhere.
C18_NoStaleCharacters ==
    IterationEnd /\ state = 3 => lcd.row2 = OnLine(FormatVolt(ReconstructBias(Vread)))

\* a conversion has been started and the converter has not finished it
Converting == pc = "wait" /\ Bit(ADCSRA, ADSC) = 1

\* C15 -- Blocking sample and progress: while a conversion is in progress
\* the program takes no step (no poll, no display write) and none is
\* possible, so a conversion that never completes leaves the loop in
\* read_adc; when every conversion completes, every iteration ends and
\* the buttons are polled again and again.
C15_BlockingAndProgress ==
    /\ [][Converting => UNCHANGED <<prog, pins, printed, lcd, hold>>]_vars
    /\ [](Converting => ~ENABLED ProgNext)
    /\ []<>(pc = "switch")
    /\ (pc = "switch") ~> (pc = "poll")

C15_Witness ==
    /\ Converting /\ state = 3
    /\ hold.btn = "none" /\ printed = 29464636

\* C19 -- Reconstruction is linear and monotone: for both profiles the
\* voltage of code 0 is 0, the voltage of code FullScale is the reference
\* voltage times the divider ratio, the voltage does not decrease with the
\* code (hence neither does the three-digit value on the display), and
\* the voltages of two codes add up to that of their sum within 1 uV.
C19_ReconstructMonotone ==
    pc = "done" =>
        LET s == Vread IN
        /\ s = 0 => peak = 0 /\ bias = 0
        /\ s = FullScale =>
              /\ peak = FixDiv(11 * (49520 + 10165), 10 * 10165, 6)
              /\ bias = FixDiv(5 * (4981 + 1018), 1018, 6)
        /\ \A s1 \in 0 .. s :
              /\ ReconstructPeak(s1) <= peak
              /\ ReconstructBias(s1) <= bias
              /\ ReconstructPeak(s1) \div 1000 <= peak \div 1000
              /\ ReconstructBias(s1) \div 1000 <= bias \div 1000
              /\ peak - (ReconstructPeak(s1) + ReconstructPeak(s - s1)) \in {0, 1}
              /\ bias - (ReconstructBias(s1) + ReconstructBias(s - s1)) \in {0, 1}

C19_Witness ==
    /\ pc = "done" /\ Vread = FullScale
    /\ peak = 6458780 /\ bias = 29464636

=============================================================================
